---- MODULE Spec2Model ----
(***************************************************************************)
(* haproxy-statsd.py: a polling loop that fetches HAProxy CSV statistics   *)
(* from one or more endpoints (get_haproxy_report), sends one statsd gauge *)
(* datagram per (record, tracked field) (report_to_statsd), prints the     *)
(* count, and sleeps.                                                      *)
(*                                                                         *)
(* Text is modelled as a sequence of tokens: a line "# pxname,svname" is   *)
(* <<"#", " ", "pxname", ",", "svname">>.  The tokens "#", " " and ","     *)
(* are the single characters the code treats specially; every other token  *)
(* is a run of ordinary characters.                                        *)
(***************************************************************************)
EXTENDS Integers, Sequences, FiniteSets, TLC

VARIABLES
    config,       \* the configuration and flags, fixed at startup (89-101)
    namespace,    \* the resolved statsd namespace (104-106)
    pc,           \* position of the main program
    exit,         \* [status, cause] once the process has ended
    cycle,        \* number of calls of get_haproxy_report so far
    u,            \* get_haproxy_report: index of the next url of the for loop
    aggregated,   \* get_haproxy_report: local list of data lines
    header,       \* get_haproxy_report: local header, unbound before the first pop
    stat_rows,    \* report_to_statsd: the csv.DictReader being iterated
    i,            \* report_to_statsd: number of rows already taken from the reader
    s,            \* report_to_statsd: index of the next stat of the inner loop
    path,         \* report_to_statsd: local path of the current row
    stat_count,   \* report_to_statsd: local counter
    report_num,   \* main: the value returned by report_to_statsd
    sent,         \* datagrams handed to udp_sock.sendto in the current cycle
    printed,      \* lines printed in the current cycle
    resp,         \* responses requests.get returned in the current cycle
    events        \* what the main loop did in the current cycle, in order

vars == <<config, namespace, pc, exit, cycle, u, aggregated, header, stat_rows,
          i, s, path, stat_count, report_num, sent, printed, resp, events>>

----------------------------------------------------------------------------
(* Bounds of the model *)

MaxCycles == 2
MaxEndpoints == 2
MaxRows == 3

----------------------------------------------------------------------------
(* Program constants *)

StatsdHost == "127.0.0.1"
StatsdPort == 8125
Interval == 5
Hostname == "web01"
DefaultNamespace == <<"haproxy.", "(HOSTNAME)">>

\* The tracked fields, in the order of the inner for loop.
Stats == <<"scur", "smax", "ereq", "econ", "rate", "bin", "bout",
           "hrsp_1xx", "hrsp_2xx", "hrsp_3xx", "hrsp_4xx", "hrsp_5xx",
           "qtime", "ctime", "rtime", "ttime">>

ProxyNames == {"BACKEND", "FRONTEND"}

\* Python's None as a dictionary value (csv.DictReader's restval) and as a
\* dictionary key (csv.DictReader's restkey).
NoneVal == "<None>"
RestKey == "<None key>"

----------------------------------------------------------------------------
(* Text helpers *)

\* The segments of `tokens` between occurrences of `sep`; n separators give
\* n+1 segments, empty ones included.
RECURSIVE SplitOn(_, _)
SplitOn(tokens, sep) ==
    IF \A k \in 1..Len(tokens) : tokens[k] # sep
    THEN <<tokens>>
    ELSE LET first == CHOOSE k \in 1..Len(tokens) :
                          /\ tokens[k] = sep
                          /\ \A j \in 1..(k-1) : tokens[j] # sep
         IN <<SubSeq(tokens, 1, first - 1)>>
                \o SplitOn(SubSeq(tokens, first + 1, Len(tokens)), sep)

\* The text of a token sequence.
RECURSIVE Text(_)
Text(tokens) ==
    IF tokens = <<>> THEN "" ELSE Head(tokens) \o Text(Tail(tokens))

\* str.splitlines(): the lines of the content, without a last empty line
\* when the content ends with a line break.
SplitLines(content) ==
    IF content = <<>> THEN <<>>
    ELSE LET segs == SplitOn(content, "\n")
         IN IF segs[Len(segs)] = <<>> THEN SubSeq(segs, 1, Len(segs) - 1)
            ELSE segs

\* str.lstrip(chars): drop leading characters that are in `chars`.
RECURSIVE LStrip(_, _)
LStrip(line, chars) ==
    IF line # <<>> /\ Head(line) \in chars THEN LStrip(Tail(line), chars)
    ELSE line

\* csv.reader on one line: its cells; an empty line gives the empty row.
CsvRow(line) ==
    IF line = <<>> THEN <<>>
    ELSE LET segs == SplitOn(line, ",")
         IN [k \in 1..Len(segs) |-> Text(segs[k])]

\* One csv.DictReader record: dict(zip(fieldnames, row)), surplus cells
\* under restkey, missing cells as restval.
DictRow(fieldnames, row) ==
    LET lf == Len(fieldnames)
        lr == Len(row)
        keys == {fieldnames[k] : k \in 1..lf}
                    \cup (IF lf < lr THEN {RestKey} ELSE {})
        last(key) == CHOOSE k \in 1..lf :
                         /\ fieldnames[k] = key
                         /\ \A j \in (k+1)..lf : fieldnames[j] # key
    IN [key \in keys |->
            IF lf < lr /\ key = RestKey THEN SubSeq(row, lf + 1, lr)
            ELSE IF last(key) > lr THEN NoneVal
            ELSE row[last(key)]]

\* The rows csv.DictReader yields after the first line: blank rows skipped.
RECURSIVE DictRows(_, _)
DictRows(fieldnames, lines) ==
    IF lines = <<>> THEN <<>>
    ELSE IF CsvRow(Head(lines)) = <<>> THEN DictRows(fieldnames, Tail(lines))
    ELSE <<DictRow(fieldnames, CsvRow(Head(lines)))>>
            \o DictRows(fieldnames, Tail(lines))

\* csv.DictReader(lines), as the sequence of records it yields: the first
\* line gives the field names.
DictReader(lines) ==
    IF lines = <<>> THEN <<>>
    ELSE DictRows(CsvRow(Head(lines)), Tail(lines))

\* namespace.replace('(HOSTNAME)', socket.gethostname())
ResolveNamespace(template) ==
    Text([k \in 1..Len(template) |->
            IF template[k] = "(HOSTNAME)" THEN Hostname ELSE template[k]])

----------------------------------------------------------------------------
(* Inputs: what the endpoints answer, and the configurations *)

HeaderStd == <<"#", " ", "pxname", ",", "svname", ",", "scur">>
HeaderNoSvname == <<"#", " ", "pxname", ",", "scur">>
HeaderNoPxname == <<"#", " ", "svname", ",", "scur">>

RowFrontend == <<"web", ",", "FRONTEND", ",", "3">>
RowBackend == <<"web", ",", "BACKEND", ",", "7">>
RowServer == <<"web", ",", "server1", ",">>
RowShort == <<"api">>

\* The content of a response whose lines are `lines`, each ended by "\n".
RECURSIVE Content(_)
Content(lines) ==
    IF lines = <<>> THEN <<>>
    ELSE Head(lines) \o <<"\n">> \o Content(Tail(lines))

Contents == {
    Content(<<HeaderStd, RowFrontend, RowBackend>>),
    Content(<<HeaderStd, RowServer, <<>>, RowShort>>),
    Content(<<HeaderStd>>),
    Content(<<HeaderNoSvname, <<"web", ",", "5">>>>),
    Content(<<HeaderNoPxname, <<"server1", ",", "4">>, <<"BACKEND", ",", "7">>>>),
    <<>> }

\* What requests.get and raise_for_status make of one request: a failure
\* (network error or non-success status), or the content of the response.
Responses ==
    {[ok |-> FALSE, content |-> <<>>]}
        \cup {[ok |-> TRUE, content |-> c] : c \in Contents}

\* haproxy_url is one string or a list of strings.
UrlName(k) == "http://haproxy" \o ToString(k) \o "/;csv"

UrlConfigs ==
    {[kind |-> "str", val |-> UrlName(1)]}
        \cup {[kind |-> "list", val |-> [k \in 1..n |-> UrlName(k)]] :
                n \in 0..MaxEndpoints}

Configs ==
    [haproxy_url : UrlConfigs,
     haproxy_user : {""},
     haproxy_password : {""},
     statsd_namespace : {DefaultNamespace},
     statsd_host : {StatsdHost},
     statsd_port : {StatsdPort},
     interval : {Interval},
     once : BOOLEAN,
     excludeproxies : BOOLEAN]

----------------------------------------------------------------------------
(* The program *)

Unbound == [bound |-> FALSE, line |-> <<>>]
Running == [status |-> -1, cause |-> "running"]
Init ==
    /\ config \in Configs
    /\ namespace = ResolveNamespace(config.statsd_namespace)
    /\ pc = "loop"
    /\ exit = Running
    /\ cycle = 0
    /\ u = 0
    /\ aggregated = <<>>
    /\ header = Unbound
    /\ stat_rows = <<>>
    /\ i = 0
    /\ s = 0
    /\ path = ""
    /\ stat_count = 0
    /\ report_num = 0
    /\ sent = <<>>
    /\ printed = <<>>
    /\ resp = <<>>
    /\ events = <<>>

\* get_haproxy_report: a single url is a one-element list.
UrlList(url) == IF url.kind = "str" THEN <<url.val>> ELSE url.val

\* An exception other than KeyboardInterrupt leaves the while loop and the
\* try statement uncaught: the interpreter prints it and ends with status 1.
Uncaught(what) ==
    /\ pc' = "exited"
    /\ exit' = [status |-> 1, cause |-> what]

\* GetReportEnter with `aggregated` surviving from the previous call, as a
\* list shared between calls would.
GetReportEnterStale ==
    /\ pc = "loop"
    /\ cycle < MaxCycles
    /\ cycle' = cycle + 1
    /\ pc' = "fetch"
    /\ u' = 1
    /\ header' = Unbound
    /\ events' = <<<<"fetch", 0>>>>
    /\ sent' = <<>>
    /\ printed' = <<>>
    /\ resp' = <<>>
    /\ UNCHANGED <<config, namespace, exit, aggregated, stat_rows, i, s, path,
                   stat_count, report_num>>

\* while True: the main loop calls get_haproxy_report, which sets up its
\* locals.
GetReportEnter ==
    /\ pc = "loop"
    /\ cycle < MaxCycles
    /\ cycle' = cycle + 1
    /\ pc' = "fetch"
    /\ u' = 1
    /\ aggregated' = <<>>
    /\ header' = Unbound
    /\ events' = <<<<"fetch", 0>>>>
    /\ sent' = <<>>
    /\ printed' = <<>>
    /\ resp' = <<>>
    /\ UNCHANGED <<config, namespace, exit, stat_rows, i, s, path, stat_count,
                   report_num>>

\* FetchUrl keeping the header of the first response instead of assigning
\* it on every iteration.
FetchUrlFirstHeader ==
    /\ pc = "fetch"
    /\ u <= Len(UrlList(config.haproxy_url))
    /\ \E r \in Responses :
        /\ r.ok
        /\ SplitLines(r.content) # <<>>
        /\ resp' = Append(resp, r)
        /\ LET lines == SplitLines(r.content)
           IN /\ header' = IF header.bound THEN header
                           ELSE [bound |-> TRUE,
                                 line |-> LStrip(Head(lines), {"#", " "})]
              /\ aggregated' = aggregated \o Tail(lines)
    /\ u' = u + 1
    /\ UNCHANGED <<config, namespace, pc, exit, cycle, stat_rows, i, s, path,
                   stat_count, report_num, sent, printed, events>>

\* for u in url: the request succeeds and the response has lines.
FetchUrl ==
    /\ pc = "fetch"
    /\ u <= Len(UrlList(config.haproxy_url))
    /\ \E r \in Responses :
        /\ r.ok
        /\ SplitLines(r.content) # <<>>
        /\ resp' = Append(resp, r)
        /\ LET lines == SplitLines(r.content)
           IN /\ header' = [bound |-> TRUE,
                            line |-> LStrip(Head(lines), {"#", " "})]
              /\ aggregated' = aggregated \o Tail(lines)
    /\ u' = u + 1
    /\ UNCHANGED <<config, namespace, pc, exit, cycle, stat_rows, i, s, path,
                   stat_count, report_num, sent, printed, events>>

\* FetchRaise with the error swallowed: the loop goes on with the next url.
FetchRaiseSwallowed ==
    /\ pc = "fetch"
    /\ u <= Len(UrlList(config.haproxy_url))
    /\ \E r \in Responses :
        /\ ~r.ok
        /\ resp' = Append(resp, r)
    /\ u' = u + 1
    /\ UNCHANGED <<config, namespace, pc, exit, cycle, aggregated, header,
                   stat_rows, i, s, path, stat_count, report_num, sent,
                   printed, events>>

\* for u in url: requests.get or raise_for_status raises.
FetchRaise ==
    /\ pc = "fetch"
    /\ u <= Len(UrlList(config.haproxy_url))
    /\ \E r \in Responses :
        /\ ~r.ok
        /\ resp' = Append(resp, r)
    /\ Uncaught("fetch")
    /\ UNCHANGED <<config, namespace, cycle, u, aggregated, header, stat_rows,
                   i, s, path, stat_count, report_num, sent, printed, events>>

\* for u in url: the response has no line, lines.pop(0) raises IndexError.
FetchPopEmpty ==
    /\ pc = "fetch"
    /\ u <= Len(UrlList(config.haproxy_url))
    /\ \E r \in Responses :
        /\ r.ok
        /\ SplitLines(r.content) = <<>>
        /\ resp' = Append(resp, r)
    /\ Uncaught("pop")
    /\ UNCHANGED <<config, namespace, cycle, u, aggregated, header, stat_rows,
                   i, s, path, stat_count, report_num, sent, printed, events>>

\* After the for loop: aggregated.insert(0, header) and the DictReader is
\* returned to the main loop.
GetReportReturn ==
    /\ pc = "fetch"
    /\ u > Len(UrlList(config.haproxy_url))
    /\ header.bound
    /\ stat_rows' = DictReader(<<header.line>> \o aggregated)
    /\ pc' = "report"
    /\ UNCHANGED <<config, namespace, exit, cycle, u, aggregated, header, i,
                   s, path, stat_count, report_num, sent, printed, resp,
                   events>>

\* After the for loop over an empty list: header was never assigned.
GetReportUnbound ==
    /\ pc = "fetch"
    /\ u > Len(UrlList(config.haproxy_url))
    /\ ~header.bound
    /\ Uncaught("unbound")
    /\ UNCHANGED <<config, namespace, cycle, u, aggregated, header, stat_rows,
                   i, s, path, stat_count, report_num, sent, printed, resp,
                   events>>

\* The main loop calls report_to_statsd, which opens its socket and zeroes
\* its counter.
ReportEnter ==
    /\ pc = "report"
    /\ pc' = "rows"
    /\ stat_count' = 0
    /\ i' = 0
    /\ events' = Append(events, <<"report", 0>>)
    /\ UNCHANGED <<config, namespace, exit, cycle, u, aggregated, header,
                   stat_rows, s, path, report_num, sent, printed, resp>>

\* Excluded with the flag ignored.
ExcludedWhateverFlag(row, excludeproxies) ==
    ~(row["svname"] \in ProxyNames)

\* not row['svname'] in ['BACKEND', 'FRONTEND'] and excludeproxies
Excluded(row, excludeproxies) ==
    (~(row["svname"] \in ProxyNames)) /\ excludeproxies

\* '.'.join([namespace, row['pxname'], row['svname']])
Path(ns, row) == ns \o "." \o row["pxname"] \o "." \o row["svname"]

\* StatValue with the default given to absent values only
\* (row.get(stat, 0)).
StatValueKeepEmpty(row, stat) ==
    IF stat \in DOMAIN row THEN row[stat] ELSE ToString(0)

\* row.get(stat) or 0, as '%s' renders it.
StatValue(row, stat) ==
    IF stat \in DOMAIN row /\ row[stat] # NoneVal /\ row[stat] # ""
    THEN row[stat]
    ELSE ToString(0)

\* udp_sock.sendto('%s.%s:%s|g' % (path, stat, val), (host, port))
Datagram(p, stat, val, host, port) ==
    [payload |-> p \o "." \o stat \o ":" \o val \o "|g",
     to |-> <<host, port>>]

\* RowRaises with row['pxname'] read before the filter.
RowRaisesNamesFirst(row, excludeproxies) ==
    IF ~("svname" \in DOMAIN row) \/ ~("pxname" \in DOMAIN row) THEN TRUE
    ELSE IF Excluded(row, excludeproxies) THEN FALSE
    ELSE row["pxname"] = NoneVal \/ row["svname"] = NoneVal

\* Whether evaluating the row's condition and path raises: a missing key
\* (KeyError), or None handed to str.join (TypeError).
RowRaises(row, excludeproxies) ==
    IF ~("svname" \in DOMAIN row) THEN TRUE
    ELSE IF Excluded(row, excludeproxies) THEN FALSE
    ELSE IF ~("pxname" \in DOMAIN row) THEN TRUE
    ELSE row["pxname"] = NoneVal \/ row["svname"] = NoneVal

\* for row in stat_rows: the row is filtered out, continue.
ReportSkipRow ==
    /\ pc = "rows"
    /\ i < Len(stat_rows)
    /\ ~RowRaises(stat_rows[i + 1], config.excludeproxies)
    /\ Excluded(stat_rows[i + 1], config.excludeproxies)
    /\ i' = i + 1
    /\ UNCHANGED <<config, namespace, pc, exit, cycle, u, aggregated, header,
                   stat_rows, s, path, stat_count, report_num, sent, printed,
                   resp, events>>

\* for row in stat_rows: the row passes the filter, its path is built and
\* the inner loop starts.
ReportRowPath ==
    /\ pc = "rows"
    /\ i < Len(stat_rows)
    /\ ~RowRaises(stat_rows[i + 1], config.excludeproxies)
    /\ ~Excluded(stat_rows[i + 1], config.excludeproxies)
    /\ i' = i + 1
    /\ path' = Path(namespace, stat_rows[i + 1])
    /\ s' = 1
    /\ pc' = "stats"
    /\ UNCHANGED <<config, namespace, exit, cycle, u, aggregated, header,
                   stat_rows, stat_count, report_num, sent, printed, resp,
                   events>>

\* for row in stat_rows: row['svname'], row['pxname'] or the join raises.
ReportRowRaise ==
    /\ pc = "rows"
    /\ i < Len(stat_rows)
    /\ RowRaises(stat_rows[i + 1], config.excludeproxies)
    /\ i' = i + 1
    /\ Uncaught("row")
    /\ UNCHANGED <<config, namespace, cycle, u, aggregated, header, stat_rows,
                   s, path, stat_count, report_num, sent, printed, resp,
                   events>>

\* for stat in [...]: one datagram is sent and counted; after the last stat
\* the outer loop goes on.
ReportSend ==
    /\ pc = "stats"
    /\ s <= Len(Stats)
    /\ sent' = Append(sent,
                  Datagram(path, Stats[s], StatValue(stat_rows[i], Stats[s]),
                           config.statsd_host, config.statsd_port))
    /\ stat_count' = stat_count + 1
    /\ s' = s + 1
    /\ pc' = IF s = Len(Stats) THEN "rows" ELSE "stats"
    /\ UNCHANGED <<config, namespace, exit, cycle, u, aggregated, header,
                   stat_rows, i, path, report_num, printed, resp, events>>

\* ReportReturn returning the number of rows read instead of stat_count.
ReportReturnRows ==
    /\ pc = "rows"
    /\ i = Len(stat_rows)
    /\ report_num' = i
    /\ pc' = "log"
    /\ UNCHANGED <<config, namespace, exit, cycle, u, aggregated, header,
                   stat_rows, i, s, path, stat_count, sent, printed, resp,
                   events>>

\* The reader is exhausted: return stat_count.
ReportReturn ==
    /\ pc = "rows"
    /\ i = Len(stat_rows)
    /\ report_num' = stat_count
    /\ pc' = "log"
    /\ UNCHANGED <<config, namespace, exit, cycle, u, aggregated, header,
                   stat_rows, i, s, path, stat_count, sent, printed, resp,
                   events>>

\* LogCount with the --once flag ignored.
LogCountIgnoresOnce ==
    /\ pc = "log"
    /\ printed' = Append(printed, "Reported " \o ToString(report_num) \o " stats")
    /\ events' = Append(events, <<"log", report_num>>)
    /\ pc' = "sleep"
    /\ UNCHANGED <<config, namespace, exit, cycle, u, aggregated, header,
                   stat_rows, i, s, path, stat_count, report_num, sent, resp>>

\* print("Reported %s stats" % report_num); with --once, exit(0).
LogCount ==
    /\ pc = "log"
    /\ printed' = Append(printed, "Reported " \o ToString(report_num) \o " stats")
    /\ events' = Append(events, <<"log", report_num>>)
    /\ IF config.once
       THEN /\ pc' = "exited"
            /\ exit' = [status |-> 0, cause |-> "once"]
       ELSE /\ pc' = "sleep"
            /\ exit' = exit
    /\ UNCHANGED <<config, namespace, cycle, u, aggregated, header, stat_rows,
                   i, s, path, stat_count, report_num, sent, resp>>

\* time.sleep(interval) returns; the while loop starts over.
Sleep ==
    /\ pc = "sleep"
    /\ events' = Append(events, <<"sleep", config.interval>>)
    /\ pc' = "loop"
    /\ UNCHANGED <<config, namespace, exit, cycle, u, aggregated, header,
                   stat_rows, i, s, path, stat_count, report_num, sent,
                   printed, resp>>

\* Interrupt handled inside the loop without leaving it.
InterruptSwallowed ==
    /\ pc \in {"loop", "fetch", "report", "rows", "stats", "log", "sleep"}
    /\ exit.cause # "interrupt"
    /\ pc' = "loop"
    /\ exit' = [status |-> -1, cause |-> "interrupt"]
    /\ UNCHANGED <<config, namespace, cycle, u, aggregated, header, stat_rows,
                   i, s, path, stat_count, report_num, sent, printed, resp,
                   events>>

\* except KeyboardInterrupt: exit(0), wherever in the loop it is raised.
Interrupt ==
    /\ pc \in {"loop", "fetch", "report", "rows", "stats", "log", "sleep"}
    /\ pc' = "exited"
    /\ exit' = [status |-> 0, cause |-> "interrupt"]
    /\ UNCHANGED <<config, namespace, cycle, u, aggregated, header, stat_rows,
                   i, s, path, stat_count, report_num, sent, printed, resp,
                   events>>

Next ==
    \/ GetReportEnter
    \/ FetchUrl
    \/ FetchRaise
    \/ FetchPopEmpty
    \/ GetReportReturn
    \/ GetReportUnbound
    \/ ReportEnter
    \/ ReportSkipRow
    \/ ReportRowPath
    \/ ReportRowRaise
    \/ ReportSend
    \/ ReportReturn
    \/ LogCount
    \/ Sleep
    \/ Interrupt

Spec == Init /\ [][Next]_vars

----------------------------------------------------------------------------
(* report_to_statsd on its own: called once with any sequence of records *)

Records == {
    [pxname |-> "web", svname |-> "BACKEND", scur |-> "5"],
    [pxname |-> "web", svname |-> "FRONTEND", scur |-> "", smax |-> "9"],
    [pxname |-> "web", svname |-> "server1", scur |-> "1"],
    [svname |-> "server1", scur |-> "1"],
    [svname |-> "BACKEND", scur |-> "2"],
    [pxname |-> "web", scur |-> "2"] }

RecordSeqs ==
    UNION {[1..n -> Records] : n \in 0..MaxRows}

InitReport ==
    /\ config \in {c \in Configs : c.haproxy_url.kind = "str" /\ ~c.once}
    /\ namespace = ResolveNamespace(config.statsd_namespace)
    /\ pc = "report"
    /\ exit = Running
    /\ cycle = 1
    /\ u = 0
    /\ aggregated = <<>>
    /\ header = Unbound
    /\ stat_rows \in RecordSeqs
    /\ i = 0
    /\ s = 0
    /\ path = ""
    /\ stat_count = 0
    /\ report_num = 0
    /\ sent = <<>>
    /\ printed = <<>>
    /\ resp = <<>>
    /\ events = <<>>

NextReport ==
    \/ ReportEnter
    \/ ReportSkipRow
    \/ ReportRowPath
    \/ ReportRowRaise
    \/ ReportSend
    \/ ReportReturn

SpecReport == InitReport /\ [][NextReport]_vars

----------------------------------------------------------------------------
(* Reference definitions used by the properties *)

\* The 16 tracked fields as the specification lists them.
TrackedFields == <<"scur", "smax", "ereq", "econ", "rate", "bin", "bout",
                   "hrsp_1xx", "hrsp_2xx", "hrsp_3xx", "hrsp_4xx",
                   "hrsp_5xx", "qtime", "ctime", "rtime", "ttime">>

\* The record has a pxname and a svname.
HasNames(rec) ==
    /\ "pxname" \in DOMAIN rec
    /\ "svname" \in DOMAIN rec
    /\ rec["pxname"] # NoneVal
    /\ rec["svname"] # NoneVal

\* The record passes the proxy filter.
Passes(rec, excludeproxies) ==
    IF excludeproxies
    THEN IF "svname" \in DOMAIN rec
         THEN rec["svname"] = "BACKEND" \/ rec["svname"] = "FRONTEND"
         ELSE FALSE
    ELSE TRUE

\* Number of records among the first n that pass the filter.
PassCount(n) ==
    Cardinality({j \in 1..n : Passes(stat_rows[j], config.excludeproxies)})

\* The datagram the specification prescribes for one record and field.
RefDatagram(rec, field) ==
    LET value == IF field \in DOMAIN rec
                 THEN (IF rec[field] = "" \/ rec[field] = NoneVal
                       THEN "0" ELSE rec[field])
                 ELSE "0"
    IN [payload |-> namespace \o "." \o rec["pxname"] \o "." \o rec["svname"]
                        \o "." \o field \o ":" \o value \o "|g",
        to |-> <<config.statsd_host, config.statsd_port>>]

\* The datagrams the specification prescribes for a sequence of records.
RECURSIVE RefDatagrams(_)
RefDatagrams(recs) ==
    IF recs = <<>> THEN <<>>
    ELSE (IF Passes(Head(recs), config.excludeproxies)
          THEN [k \in 1..16 |-> RefDatagram(Head(recs), TrackedFields[k])]
          ELSE <<>>) \o RefDatagrams(Tail(recs))

\* The lines of the k-th response of the cycle, its data rows (blank lines
\* are not rows) and the columns of its header without the "# " marker.
RespLines(k) == SplitLines(resp[k].content)

NonBlank(line) == line # <<>>

DataRows(k) == SelectSeq(Tail(RespLines(k)), NonBlank)

RECURSIVE DataRowsUpTo(_)
DataRowsUpTo(k) ==
    IF k = 0 THEN <<>> ELSE DataRowsUpTo(k - 1) \o DataRows(k)

HeaderColumns(k) ==
    LET line == Head(RespLines(k))
    IN CsvRow(SubSeq(line, 3, Len(line)))

\* The record maps the columns to the cells of the row, in order.
MapsColumns(rec, cols, cells) ==
    /\ DOMAIN rec \ {RestKey} = {cols[c] : c \in 1..Len(cols)}
    /\ \A c \in 1..Len(cols) : c <= Len(cells) => rec[cols[c]] = cells[c]

\* The records of the cycle are the data rows of its responses, in order,
\* read under the header of response k.
RecordsUnderHeader(k) ==
    LET rows == DataRowsUpTo(Len(resp))
    IN /\ Len(stat_rows) = Len(rows)
       /\ \A j \in 1..Len(rows) :
            MapsColumns(stat_rows[j], HeaderColumns(k), CsvRow(rows[j]))

SomeFetchFailed == \E k \in 1..Len(resp) : ~resp[k].ok

----------------------------------------------------------------------------
(* Properties *)

C2_ReturnCountsEmissions ==
    (\A j \in 1..Len(stat_rows) : HasNames(stat_rows[j])) =>
        /\ ~(pc = "exited" /\ exit.cause = "row")
        /\ pc = "log" =>
            /\ report_num = 16 * PassCount(Len(stat_rows))
            /\ report_num = Len(sent)

C2_Witness ==
    /\ pc = "log"
    /\ config.excludeproxies
    /\ Len(stat_rows) = 3
    /\ \A j \in 1..3 : HasNames(stat_rows[j])
    /\ PassCount(3) = 2
    /\ report_num = 32

\* C3: while report_to_statsd runs, the datagrams sent so far are 16 for
\* every record already handled that passes the filter and none for every
\* record that does not (with excludeproxies false every record passes,
\* with excludeproxies true only BACKEND and FRONTEND records do), plus
\* the datagrams of the record in hand, which passes.
C3_FilterDecidesAllOrNothing ==
    /\ pc = "rows" => Len(sent) = 16 * PassCount(i)
    /\ pc = "stats" =>
        /\ Passes(stat_rows[i], config.excludeproxies)
        /\ Len(sent) = 16 * PassCount(i - 1) + (s - 1)

C3_Witness ==
    /\ pc = "rows"
    /\ config.excludeproxies
    /\ i = 2
    /\ stat_rows[1]["svname"] = "server1"
    /\ stat_rows[2]["svname"] = "FRONTEND"
    /\ Len(sent) = 16

\* C4: the datagrams sent by a completed report_to_statsd are the reference
\* sequence: passing records in input order, the 16 tracked fields in
\* their fixed order, one datagram per (record, field) to (host, port) with
\* payload <namespace>.<pxname>.<svname>.<field>:<value>|g, the value being
\* 0 when the field is absent or empty.
C4_DatagramsAreReference ==
    pc = "log" => sent = RefDatagrams(stat_rows)

C4_Witness ==
    /\ pc = "log"
    /\ Len(stat_rows) = 2
    /\ Len(sent) = 32
    /\ sent[1].payload = "haproxy.web01.web.BACKEND.scur:5|g"
    /\ sent[2].payload = "haproxy.web01.web.BACKEND.smax:0|g"
    /\ sent[17].payload = "haproxy.web01.web.FRONTEND.scur:0|g"
    /\ sent[18].payload = "haproxy.web01.web.FRONTEND.smax:9|g"
    /\ sent[32].to = <<"127.0.0.1", 8125>>

\* C5: when a request fails and --once is not set, the process does not
\* crash: it is not ended with a non-zero status.
C5_LoopSurvivesFetchFailure ==
    (~config.once /\ SomeFetchFailed) => ~(pc = "exited" /\ exit.status # 0)

\* C6: in a cycle in which a request fails no datagram is sent and no count
\* is printed; every endpoint has been fetched successfully before the
\* first datagram of the cycle is sent.
C6_NoReportAfterFailedFetch ==
    /\ SomeFetchFailed => sent = <<>> /\ printed = <<>>
    /\ (sent # <<>> \/ printed # <<>>) =>
        /\ Len(resp) = Len(UrlList(config.haproxy_url))
        /\ \A k \in 1..Len(resp) : resp[k].ok

C6_Witness ==
    /\ pc = "exited"
    /\ exit.cause = "fetch"
    /\ cycle = 2
    /\ Len(resp) = 2
    /\ resp[1].ok
    /\ Len(DataRows(1)) = 2

\* The order of the events of one cycle.
CycleOrder == <<"fetch", "report", "log", "sleep">>

LoopPositions == {"loop", "fetch", "report", "rows", "stats", "log", "sleep"}

C7_CycleState ==
    /\ Len(events) <= 4
    /\ \A k \in 1..Len(events) : events[k][1] = CycleOrder[k]
    /\ Len(events) >= 3 =>
        /\ events[3][2] = report_num
        /\ printed = <<"Reported " \o ToString(report_num) \o " stats">>
    /\ Len(events) = 4 => events[4][2] = config.interval
    /\ config.once =>
        /\ cycle <= 1
        /\ pc # "sleep"
        /\ Len(events) <= 3
        /\ Len(events) = 3 =>
            /\ pc = "exited"
            /\ exit = [status |-> 0, cause |-> "once"]
    /\ ~config.once =>
        /\ Len(events) = 3 => (pc = "sleep" \/ exit.cause = "interrupt")
        /\ Len(events) = 4 => (pc = "loop" \/ exit.cause = "interrupt")
        /\ (pc = "exited" /\ exit.status = 0) => exit.cause = "interrupt"

C7_CycleStep ==
    (pc = "loop" /\ pc' # "loop" /\ exit'.cause # "interrupt") =>
        /\ pc' = "fetch"
        /\ cycle' = cycle + 1
        /\ events' = <<<<"fetch", 0>>>>

\* C7: in every cycle the events are fetch, report, log count, in this
\* order.  With --once there is one fetch and one report, and after the
\* count is logged the process has exited with status 0, without sleeping.
\* Without it each logged count is followed by one sleep of the configured
\* interval and then by the next cycle's fetch, and the process never
\* exits with status 0 unless it is interrupted.
C7_FetchReportLogSleep == []C7_CycleState /\ [][C7_CycleStep]_vars

C7_Witness ==
    /\ ~config.once
    /\ cycle = 2
    /\ pc = "sleep"
    /\ events = <<<<"fetch", 0>>, <<"report", 0>>, <<"log", 32>>>>

C8_InterruptState ==
    /\ pc \in LoopPositions => ENABLED Interrupt
    /\ exit.cause = "interrupt" => (pc = "exited" /\ exit.status = 0)

C8_InterruptStep ==
    /\ (exit.cause # "interrupt" /\ exit'.cause = "interrupt") =>
            (sent' = sent /\ printed' = printed /\ resp' = resp)
    /\ pc = "exited" =>
            (sent' = sent /\ printed' = printed /\ resp' = resp
                /\ cycle' = cycle /\ pc' = pc /\ exit' = exit)

\* C8: a keyboard interrupt can be taken at every position of the polling
\* loop; it ends the process with status 0 and leaves the datagrams already
\* sent as they are; once the process has exited there is no further
\* fetch, datagram or log.
C8_InterruptExitsCleanly == []C8_InterruptState /\ [][C8_InterruptStep]_vars

C8_Witness ==
    /\ pc = "exited"
    /\ exit = [status |-> 0, cause |-> "interrupt"]
    /\ cycle = 2
    /\ Len(sent) = 21

\* What one cycle sends, from its responses and the configuration alone.
CycleRecords ==
    LET n == Len(resp)
        RECURSIVE Tails(_)
        Tails(k) == IF k = 0 THEN <<>>
                    ELSE Tails(k - 1) \o Tail(RespLines(k))
    IN DictReader(<<LStrip(Head(RespLines(n)), {"#", " "})>> \o Tails(n))

C9_CycleState ==
    (pc \in {"log", "sleep"}) =>
        /\ sent = RefDatagrams(CycleRecords)
        /\ report_num = Len(RefDatagrams(CycleRecords))
        /\ pc = "sleep" =>
            printed = <<"Reported " \o ToString(Len(RefDatagrams(CycleRecords)))
                            \o " stats">>

\* C9: the datagrams sent and the count logged in a cycle are a function of
\* that cycle's responses and of the configuration alone, whatever the
\* earlier cycles returned, and the configuration and the resolved
\* namespace never change.
C9_CyclesAreStateless ==
    []C9_CycleState /\ [][config' = config /\ namespace' = namespace]_vars

C9_Witness ==
    /\ cycle = 2
    /\ pc = "sleep"
    /\ Len(resp) = 2
    /\ Len(sent) = 32

\* C10 as stated: a record that lacks svname or pxname makes the call fail
\* whatever excludeproxies is, so the call never gets past such a record.
C10_MissingNameAlwaysFails ==
    pc \in {"rows", "stats", "log"} =>
        \A j \in 1..i :
            /\ "svname" \in DOMAIN stat_rows[j]
            /\ "pxname" \in DOMAIN stat_rows[j]

\* C10 as amended: report_to_statsd reads svname before filtering and
\* pxname after it.  A record that lacks svname makes the call fail
\* whatever excludeproxies is; a record that lacks pxname makes it fail
\* only when it passes the filter, and is skipped silently when
\* excludeproxies is true and its svname is neither BACKEND nor FRONTEND.
\* When the call fails, the datagrams of all earlier passing records have
\* been sent, none is sent for the failing record, and no count is
\* returned.
C10_MissingNameFailsWhenRead ==
    /\ pc \in {"rows", "stats", "log"} =>
        \A j \in 1..i :
            /\ "svname" \in DOMAIN stat_rows[j]
            /\ \/ "pxname" \in DOMAIN stat_rows[j]
               \/ ~Passes(stat_rows[j], config.excludeproxies)
    /\ (pc = "exited" /\ exit.cause = "row") =>
        /\ \/ ~("svname" \in DOMAIN stat_rows[i])
           \/ /\ Passes(stat_rows[i], config.excludeproxies)
              /\ ~HasNames(stat_rows[i])
        /\ sent = RefDatagrams(SubSeq(stat_rows, 1, i - 1))
        /\ report_num = 0
        /\ printed = <<>>

C10_Witness ==
    /\ pc = "exited"
    /\ exit.cause = "row"
    /\ config.excludeproxies
    /\ i = 3
    /\ ~("pxname" \in DOMAIN stat_rows[2])
    /\ ~Passes(stat_rows[2], config.excludeproxies)
    /\ ~("pxname" \in DOMAIN stat_rows[3])
    /\ Len(sent) = 16

====
